---- MODULE Spec2Model ----
(***************************************************************************)
(* Job orchestration of the itinerary generator: the two-tier job store    *)
(* (lib/supabase), the create handler (generate-itinerary/route.ts), the   *)
(* background pipeline (job-processor.ts) and the status poll              *)
(* (job-status/route.ts).                                                  *)
(*                                                                         *)
(* The process is single-threaded: a step of the model is one turn of the  *)
(* event loop.  It starts when a request arrives or when a durable-tier    *)
(* request, the model call or a timer completes, and it runs the awaiting  *)
(* function, and every continuation that becomes runnable, up to the next  *)
(* await on the network or on a timer.  A durable-tier request and the     *)
(* handling of its response are one step of the calling function.          *)
(***************************************************************************)
EXTENDS Integers, Sequences, FiniteSets, TLC

\* ---------------------------------------------------------------- bounds
MaxClock == 2          \* Date.now() takes the values 1..MaxClock
MaxRestarts == 1       \* times the process is replaced by a fresh instance
MaxDay == 2            \* calendar dates are the days 0..MaxDay

\* ------------------------------------------------------ program constants
maxRetries == 3        \* getJobStatus / create handler: attempt cap

Handlers == {"a", "b"} \* create requests (one POST each)
Pollers  == {"p"}      \* status-poll requests (GET, repeated)

JobIds == 1..MaxClock  \* the id "job_<t>" is represented by its timestamp t

Undefined == "undefined"
Null      == "null"

Terminal == {"completed", "failed"}

\* ------------------------------------------------------------- threads
HT(h) == <<"H", h>>    \* the POST handler of request h
PT(h) == <<"P", h>>    \* the background run started by request h
GT(p) == <<"G", p>>    \* the GET handler of poller p
Threads == {HT(h) : h \in Handlers} \cup {PT(h) : h \in Handlers}
             \cup {GT(p) : p \in Pollers}

\* The requests one run of the process serves: two create requests, or a
\* create request and the polls for it.
Workloads == {{HT("a"), HT("b")}, {HT("a"), GT("p")}}

VARIABLES
  clients,              \* the requests of this run, one of Workloads
  isSupabaseConfigured, \* lib/supabase: const isSupabaseConfigured
  isProduction,         \* route.ts: const isProduction
  keyValid,             \* OPENAI_API_KEY.startsWith('sk-')
  durableDown,          \* every durable-tier request throws a fetch failure
  clockSkew,            \* the clock is followed to the millisecond: two reads in
                        \* one turn may differ by 1 ms, updated_at is recorded
  supabaseDisabled,     \* lib/supabase: let supabaseDisabled
  verifyPending,        \* verifySupabaseConnection() started at module load
  inMemoryJobs,         \* primary tier: jobId -> JobData
  db,                   \* durable tier: numeric key -> row of table jobs
  now,                  \* Date.now()
  hpc, hjob, hretry, resp,   \* POST handler: position, jobId, retryCount, response
  jobCreated,           \* POST handler: let jobCreated
  hwrote,               \* POST handler: statuses it has written for its job
  ppc, pwrote,          \* background run: position, statuses it has written
  fetchCalls,           \* background run: calls of fetch(...) it has made
  gresp,                \* GET handler: jobId, jobStatus and the response
  opLog,                \* history: how the JobStore calls made so far ended
  call,                 \* the JobStore call each thread is inside of
  restarts,             \* number of times the process was replaced
  lastWritten,          \* history: the last createJob/updateJobStatus write per id
  tz,                   \* the time zone of the process (TZ)
  surveyData,           \* the request body: startDate, endDate
  candidate,            \* the itinerary parsed from the model's output
  path,                 \* "job": job-processor.ts, "direct": the direct route
  rpc,                  \* position of the run that handles the model output
  durationDays,         \* generatePrompt: const durationDays
  itinerary,            \* the itinerary as normalized so far
  itineraryContent,     \* data.choices[0].message.content, as fragments
  ladder,               \* history: the parses attempted on the content
  parsed,               \* let itinerary, at the end of the parse
  written,              \* the updateJobStatus call that follows the parse
  timestamps,           \* Date.now() of two create requests, as decimal digits
  dbIds,                \* getDbCompatibleId of the job ids of the two requests
  polledStatus,         \* JobStatusPoller: const [status, setStatus]
  pollCount,            \* JobStatusPoller: useState(0)
  notFoundCount,        \* JobStatusPoller: useState(0)
  timer,                \* JobStatusPoller: the pending setTimeout(pollJobStatus)
  polls,                \* the calls of pollJobStatus that have not returned
  notFoundRun,          \* history: 404 responses received in a row
  onCompleteCalls,      \* history: number of calls of props.onComplete
  onErrorCalls          \* history: number of calls of props.onError

jobVars == <<clients, isSupabaseConfigured, isProduction, keyValid, durableDown,
             clockSkew,
             supabaseDisabled, verifyPending, inMemoryJobs, db, now,
             hpc, hjob, hretry, resp, jobCreated, hwrote, ppc, pwrote,
             fetchCalls, gresp, opLog, call, restarts, lastWritten>>

repairVars == <<tz, surveyData, candidate, path, rpc, durationDays, itinerary,
               itineraryContent, ladder, parsed, written, timestamps, dbIds,
               polledStatus, pollCount, notFoundCount, timer, polls,
               notFoundRun, onCompleteCalls, onErrorCalls>>

parseVars == <<itineraryContent, ladder, parsed, written>>

keyVars == <<timestamps, dbIds>>

pollerVars == <<polledStatus, pollCount, notFoundCount, timer, polls,
               notFoundRun, onCompleteCalls, onErrorCalls>>

vars == <<jobVars, repairVars>>

envVars     == <<clients, isSupabaseConfigured, isProduction, keyValid, durableDown,
                 clockSkew>>

\* ------------------------------------------------------ key translation
RECURSIVE DecimalDigits(_)
DecimalDigits(n) ==
  IF n < 10 THEN <<48 + n>> ELSE DecimalDigits(n \div 10) \o <<48 + (n % 10)>>

\* `job_${timestamp}` as its UTF-16 code units
JobIdString(t) == <<106, 111, 98, 95>> \o DecimalDigits(t)

IsNumericString(s) == Len(s) > 0 /\ \A i \in 1..Len(s) : s[i] \in 48..57

RECURSIVE NumberOf(_)
NumberOf(s) ==
  IF Len(s) = 0 THEN 0
  ELSE 10 * NumberOf(SubSeq(s, 1, Len(s) - 1)) + (s[Len(s)] - 48)

\* hash = ((hash << 5) - hash) + char; hash = hash & hash
\* The 32-bit value is kept as <<high 16 bits, low 16 bits>>.
HashStep(p, c) ==
  LET lo == p[2] * 31 + c
      hi == p[1] * 31 + (lo \div 65536)
  IN  <<hi % 65536, lo % 65536>>

RECURSIVE HashOf(_)
HashOf(s) ==
  IF Len(s) = 0 THEN <<0, 0>>
  ELSE HashStep(HashOf(SubSeq(s, 1, Len(s) - 1)), s[Len(s)])

\* Math.abs of the signed 32-bit value
AbsInt32(p) ==
  IF p[1] < 32768 THEN p[1] * 65536 + p[2]
  ELSE (65535 - p[1]) * 65536 + (65536 - p[2])

getDbCompatibleId(s) ==
  IF IsNumericString(s) THEN NumberOf(s) ELSE AbsInt32(HashOf(s))

DbKey(id) == getDbCompatibleId(JobIdString(id))

\* getDbCompatibleId, tabulated for the job ids
DbIds == [id \in JobIds |-> getDbCompatibleId(JobIdString(id))]

\* const dbId = getDbCompatibleId(jobId) in createJob, in updateJobStatus
\* and in getJobStatus
createJobDbId(jobId) == DbIds[jobId]
updateJobStatusDbId(jobId) == DbIds[jobId]
\* mutant: the read path takes the timestamp of the id as the key
getJobStatusDbId_Timestamp(jobId) == jobId
getJobStatusDbId(jobId) == DbIds[jobId]

\* the digits of s from position i on, up to the first character that is
\* not a digit
RECURSIVE DigitsFrom(_, _)
DigitsFrom(s, i) ==
  IF i > Len(s) \/ s[i] \notin 48..57 THEN <<>>
  ELSE <<s[i]>> \o DigitsFrom(s, i + 1)

\* "job_", "debug_", "test_"
TimestampPrefixes ==
  {<<106, 111, 98, 95>>, <<100, 101, 98, 117, 103, 95>>, <<116, 101, 115, 116, 95>>}

\* id.match(/^(job|debug|test)_(\d+)/): the digits matched, <<>> for no match
TimestampMatch(s) ==
  LET prefixes == {x \in TimestampPrefixes :
                     Len(s) >= Len(x) /\ SubSeq(s, 1, Len(x)) = x}
  IN  IF prefixes = {} THEN <<>>
      ELSE DigitsFrom(s, Len(CHOOSE x \in prefixes : TRUE) + 1)

\* getDbCompatibleId of the debug-job-id route; its hash,
\* Math.imul(hash, 31) + char | 0, is the 32-bit value of HashStep
debugGetDbCompatibleId(s) ==
  IF IsNumericString(s) THEN NumberOf(s)
  ELSE IF TimestampMatch(s) # <<>> THEN NumberOf(TimestampMatch(s))
  ELSE AbsInt32(HashOf(s))
DbKeys == {DbKey(id) : id \in JobIds}

\* ------------------------------------------------------------- records
NoJob == [status |-> "absent", result |-> Undefined, error |-> Undefined,
          created_at |-> 0, updated_at |-> 0]
NoRow == [status |-> "absent", result |-> Null, error |-> Null, created_at |-> 0,
          updated_at |-> 0]

\* updated_at: new Date().toISOString() read at t.  The program writes this
\* field and never reads it; its value is kept where the clock is followed
\* to the millisecond.
UpdatedAt(t) == IF clockSkew THEN t ELSE 0

View(j) == [status |-> j.status, result |-> j.result, error |-> j.error]
NotFound == [status |-> "not_found", result |-> Undefined, error |-> Undefined]
NoView   == [status |-> "none", result |-> Undefined, error |-> Undefined]

Present(v) == v \notin {Undefined, Null}

NoCall == [op |-> "none", step |-> "none", id |-> 0, key |-> 0, status |-> "none",
           result |-> Undefined, error |-> Undefined, created_at |-> 0,
           updated_at |-> 0, attempts |-> 0, delay |-> 0, memoryJob |-> NoJob, lwAtCall |-> NoView,
           threw |-> FALSE, retBool |-> FALSE, retJob |-> NoView]

Returned(c) == c.step = "returned"
InFlight(c) == c.op # "none" /\ c.step # "returned"

LogEntry(c) == [op |-> c.op, threw |-> c.threw, ok |-> c.retBool]

\* data?.result || undefined, data?.error || undefined
OrUndefined(v) == IF v \in {Undefined, Null, ""} THEN Undefined ELSE v
\* safeResult (null unless data.result), data?.error || null
OrNull(v) == IF v \in {Undefined, Null, ""} THEN Null ELSE v

\* The mutable state of the process as one record, so that the code between
\* two awaits is a function from state to state.
Cur == [mem |-> inMemoryJobs, db |-> db, dis |-> supabaseDisabled, now |-> now,
        lw |-> lastWritten, call |-> call, log |-> opLog,
        hpc |-> hpc, hjob |-> hjob, hretry |-> hretry, resp |-> resp,
        created |-> jobCreated, hwrote |-> hwrote,
        ppc |-> ppc, pwrote |-> pwrote, fetches |-> fetchCalls,
        gresp |-> gresp]

Becomes(S) ==
  /\ inMemoryJobs' = S.mem
  /\ db' = S.db
  /\ supabaseDisabled' = S.dis
  /\ lastWritten' = S.lw
  /\ call' = S.call
  /\ opLog' = S.log
  /\ hpc' = S.hpc
  /\ hjob' = S.hjob
  /\ hretry' = S.hretry
  /\ resp' = S.resp
  /\ jobCreated' = S.created
  /\ hwrote' = S.hwrote
  /\ fetchCalls' = S.fetches
  /\ ppc' = S.ppc
  /\ pwrote' = S.pwrote
  /\ gresp' = S.gresp

shouldUseSupabase(S) == isSupabaseConfigured /\ ~S.dis

\* Outcomes of one durable-tier request: it answers, answers with an error
\* value ({ error }), or the client throws (fetch failure or anything else).
DurableOutcomes ==
  IF durableDown THEN {"throw_fetch"}
  ELSE {"ok", "error", "throw_fetch", "throw_other"}

\* handleSupabaseError: a TypeError whose message has 'fetch failed' or
\* 'network error' disables the tier; the result is the new flag.
handleSupabaseError(S, outcome) ==
  IF outcome = "throw_fetch" THEN TRUE ELSE S.dis

Throws == {"throw_fetch", "throw_other"}

\* --------------------------------------------------------------- JobStore
\* mutant: createJob without its try/catch
Propagates_NoCatch(op, outcome) == op = "create" /\ outcome \in Throws

\* try { ... } catch (error) { handleSupabaseError(error) } around the
\* durable part of every operation: does the failure reach the caller?
Propagates(op, outcome) == FALSE

\* mutant: the durable write decides the result
PutResult_DurableOnly(outcome) == outcome = "ok"

\* the value updateJobStatus / createJob return after the durable attempt:
\* "Always return true since we saved to in-memory storage"
PutResult(outcome) == TRUE

\* mutant: every call stamps the entry with the time of the call
UpdateMemoryJob_FreshCreatedAt(S, jobId, status, result, error) ==
  [status     |-> status,
   result     |-> OrUndefined(result),
   error      |-> OrUndefined(error),
   created_at |-> S.now,
   updated_at |-> UpdatedAt(S.now)]

\* the in-memory entry updateJobStatus builds (memoryJob)
UpdateMemoryJob(S, jobId, status, result, error) ==
  [status     |-> status,
   result     |-> OrUndefined(result),
   error      |-> OrUndefined(error),
   created_at |-> IF S.mem[jobId].created_at # 0
                  THEN S.mem[jobId].created_at ELSE S.now,
   updated_at |-> UpdatedAt(S.now)]

\* the in-memory entry createJob builds (memoryJob)
CreateMemoryJob(jobId) ==
  [status |-> "queued", result |-> Undefined, error |-> Undefined,
   created_at |-> now, updated_at |-> UpdatedAt(now)]

\* mutant: the fallback forgets the in-memory entry
MemoryFallback_Lost(memoryJob) == NotFound

\* what getJobStatus returns when it falls back to the in-memory entry
MemoryFallback(memoryJob) == View(memoryJob)

\* what getJobStatus returns for an id without an in-memory entry
MissingInMemory(jobId) == NotFound

\* the in-memory entry getJobStatus stores after a successful durable read
Promoted(data) ==
  [status |-> data.status, result |-> data.result, error |-> data.error,
   created_at |-> data.created_at, updated_at |-> data.updated_at]

\* the call of thread t returns
Return(S, t, r) ==
  [S EXCEPT !.call[t] = r, !.log = S.log \cup {LogEntry(r)}]

ReturnBool(S, t, outcome) ==
  Return(S, t, [NoCall EXCEPT !.op = S.call[t].op, !.id = S.call[t].id,
                              !.step = "returned",
                              !.lwAtCall = S.call[t].lwAtCall,
                              !.threw = Propagates(S.call[t].op, outcome),
                              !.retBool = PutResult(outcome)])

ReturnJob(S, t, v, outcome) ==
  Return(S, t, [NoCall EXCEPT !.op = S.call[t].op, !.id = S.call[t].id,
                              !.step = "returned",
                              !.lwAtCall = S.call[t].lwAtCall,
                              !.threw = Propagates(S.call[t].op, outcome),
                              !.retJob = v])

\* updateJobStatus, up to its first await: the in-memory write, then either
\* the early return or the select of the existing created_at
updateJobStatusBegin(S, t, jobId, status, result, error) ==
  LET memoryJob == UpdateMemoryJob(S, jobId, status, result, error)
      c == [NoCall EXCEPT !.op = "update", !.step = "select", !.id = jobId,
                          !.key = updateJobStatusDbId(jobId),
                          !.status = status,
                          !.result = OrNull(result), !.error = OrNull(error),
                          !.created_at = memoryJob.created_at,
                          !.lwAtCall = View(memoryJob)]
      S1 == [S EXCEPT !.mem[jobId] = memoryJob, !.lw[jobId] = View(memoryJob),
                      !.call[t] = c]
  IN  IF shouldUseSupabase(S) THEN S1 ELSE ReturnBool(S1, t, "ok")

\* the answer to select('created_at').eq('id', dbId).single(); a failure is
\* swallowed by the inner try/catch and the default created_at is kept
updateJobStatusSelect(S, t, o) ==
  LET existingJob == IF o = "ok" THEN S.db[S.call[t].key] ELSE NoRow
  IN  [S EXCEPT !.call[t].step = "upsert",
                !.call[t].updated_at = UpdatedAt(S.now),
                !.call[t].created_at = IF existingJob.created_at # 0
                                       THEN existingJob.created_at
                                       ELSE S.call[t].created_at]

\* the upsert and the return
updateJobStatusUpsert(S, t, o) ==
  LET c == S.call[t]
      row == [status |-> c.status, result |-> c.result, error |-> c.error,
              created_at |-> c.created_at, updated_at |-> c.updated_at]
      S1 == [S EXCEPT !.db = IF o = "ok"
                             THEN [S.db EXCEPT ![c.key] = row] ELSE S.db,
                      !.dis = IF o \in Throws
                              THEN handleSupabaseError(S, o) ELSE S.dis]
  IN  ReturnBool(S1, t, o)

\* createJob, up to its first await; the row to insert takes its created_at
\* from a second new Date(), which reads `later`
createJobBegin(S, t, jobId, later) ==
  LET memoryJob == CreateMemoryJob(jobId)
      c == [NoCall EXCEPT !.op = "create", !.step = "insert", !.id = jobId,
                          !.key = createJobDbId(jobId),
                          !.status = "queued",
                          !.result = Null, !.error = Null, !.created_at = later,
                          !.updated_at = UpdatedAt(later),
                          !.lwAtCall = View(memoryJob)]
      S1 == [S EXCEPT !.mem[jobId] = memoryJob, !.lw[jobId] = View(memoryJob),
                      !.call[t] = c]
  IN  IF shouldUseSupabase(S) THEN S1 ELSE ReturnBool(S1, t, "ok")

\* the insert (an error value when the key exists) and the return
createJobInsert(S, t, o) ==
  LET c == S.call[t]
      row == [status |-> "queued", result |-> Null, error |-> Null,
              created_at |-> c.created_at, updated_at |-> c.updated_at]
      S1 == [S EXCEPT !.db = IF o = "ok" /\ S.db[c.key].status = "absent"
                             THEN [S.db EXCEPT ![c.key] = row] ELSE S.db,
                      !.dis = IF o \in Throws
                              THEN handleSupabaseError(S, o) ELSE S.dis]
  IN  ReturnBool(S1, t, o)

\* getJobStatus, up to its first await
getJobStatusBegin(S, t, jobId) ==
  LET memoryJob == S.mem[jobId]
      c == [NoCall EXCEPT !.op = "get", !.step = "read", !.id = jobId,
                          !.key = getJobStatusDbId(jobId),
                          !.memoryJob = memoryJob, !.lwAtCall = S.lw[jobId]]
      S1 == [S EXCEPT !.call[t] = c]
  IN  IF memoryJob.status = "absent"
      THEN ReturnJob(S1, t, MissingInMemory(jobId), "ok")
      ELSE IF ~shouldUseSupabase(S)
      THEN ReturnJob(S1, t, MemoryFallback(memoryJob), "ok")
      ELSE S1

\* mutant: the wait is the same after every failed attempt
Backoff_Constant(attempts) == 500

\* 500 * Math.pow(2, attempts): the wait (ms) after `attempts` failed attempts
Backoff(attempts) == 500 * 2^attempts

\* one attempt of the retry loop: select('*').eq('id', dbId).maybeSingle();
\* after a failed attempt that is not the last, the backoff and the next one
getJobStatusRead(S, t, o) ==
  LET c == S.call[t]
      \* a key no write has addressed has no row
      data == IF c.key \in DbKeys THEN S.db[c.key] ELSE NoRow
  IN  IF o = "ok"
      THEN IF data.status = "absent"
           THEN ReturnJob(S, t, MemoryFallback(c.memoryJob), o)
           ELSE ReturnJob([S EXCEPT !.mem[c.id] = Promoted(data)], t, View(data), o)
      ELSE IF c.attempts + 1 < maxRetries
      THEN [S EXCEPT !.call[t].attempts = c.attempts + 1,
                     !.call[t].delay = Backoff(c.attempts + 1)]
      ELSE ReturnJob([S EXCEPT !.dis = handleSupabaseError(S, o)], t,
                     MemoryFallback(c.memoryJob), o)

\* one durable-tier answer for the call thread t is awaiting
DurableAnswer(S, t, o) ==
  CASE S.call[t].step = "select" -> updateJobStatusSelect(S, t, o)
    [] S.call[t].step = "upsert" -> updateJobStatusUpsert(S, t, o)
    [] S.call[t].step = "insert" -> createJobInsert(S, t, o)
    [] S.call[t].step = "read"   -> getJobStatusRead(S, t, o)

\* ------------------------------------------------- create handler (POST)
\* generateJobId: `job_${Date.now()}`
generateJobId == now

\* mutant: the handler awaits the background run before responding
AwaitsPipeline_Awaited == TRUE

\* "Start the processing, but don't await it" / setTimeout(..., 100): the
\* handler returns its response in the turn that starts the background run
AwaitsPipeline == FALSE

Respond(S, h, code, status) ==
  [S EXCEPT !.hpc[h] = "done", !.resp[h] = [code |-> code, status |-> status],
            !.call[HT(h)] = NoCall]

\* processItineraryJob is entered: updateJobStatus(jobId, 'processing')
EnterPipeline(S, h) ==
  [updateJobStatusBegin(S, PT(h), S.hjob[h], "processing", Undefined, Undefined)
     EXCEPT !.ppc[h] = "processing",
            !.pwrote[h] = Append(S.pwrote[h], "processing")]

\* mutant: the handler starts the background run without creating the job
PostBegin_NoCreate(S, h, later) ==
  EnterPipeline(Respond([S EXCEPT !.hjob[h] = generateJobId], h, 200,
                        "processing"), h)

\* request.json(), generateJobId(), then the mock branch (development without
\* an API key) or the first createJob
PostBegin(S, h, later) ==
  LET jobId == generateJobId
      S1 == [S EXCEPT !.hjob[h] = jobId]
  IN  IF ~isProduction /\ ~keyValid
      THEN [updateJobStatusBegin(S1, HT(h), jobId, "completed", "mockItinerary",
                                 Undefined)
              EXCEPT !.hpc[h] = "mock",
                     !.hwrote[h] = Append(S.hwrote[h], "completed")]
      ELSE [createJobBegin(S1, HT(h), jobId, later)
              EXCEPT !.hpc[h] = "create",
                     !.hwrote[h] = Append(S.hwrote[h], "queued")]

\* the handler after the JobStore call it awaited has returned
PostContinue(S, h) ==
  LET c == S.call[HT(h)]
      jobId == S.hjob[h]
      success == ~c.threw /\ c.retBool
  IN  CASE S.hpc[h] = "mock" ->
             IF success THEN Respond(S, h, 200, "completed")
             ELSE Respond(S, h, 500, "error")
        [] S.hpc[h] \in {"create", "recreate"} ->
             \* the retry loop around createJob, then the status check
             IF success
             THEN [getJobStatusBegin(S, HT(h), jobId) EXCEPT
                     !.created[h] = TRUE,
                     !.hpc[h] = IF S.hpc[h] = "create" THEN "check" ELSE "recheck"]
             ELSE IF S.hpc[h] = "create" /\ S.hretry[h] + 1 < maxRetries
             THEN [createJobBegin(S, HT(h), jobId, now) EXCEPT
                     !.hretry[h] = S.hretry[h] + 1,
                     !.hwrote[h] = Append(S.hwrote[h], "queued")]
             ELSE IF S.hpc[h] = "create"
             THEN Respond([S EXCEPT !.hretry[h] = S.hretry[h] + 1], h, 500, "error")
             ELSE [S EXCEPT !.hpc[h] = "recheck",
                            !.created[h] = ~c.threw /\ c.retBool,
                            !.call[HT(h)] = [c EXCEPT !.retJob = NotFound]]
        [] S.hpc[h] = "check" /\ ~c.threw /\ c.retJob.status = "not_found" ->
             \* "Try to recreate the job one more time"
             [createJobBegin(S, HT(h), jobId, now) EXCEPT
                !.hpc[h] = "recreate",
                !.hwrote[h] = Append(S.hwrote[h], "queued")]
        [] /\ S.hpc[h] \in {"check", "recheck"}
           /\ ~(S.hpc[h] = "check" /\ ~c.threw /\ c.retJob.status = "not_found") ->
             IF isProduction
             THEN [updateJobStatusBegin(S, HT(h), jobId, "processing",
                                        Undefined, Undefined)
                     EXCEPT !.hpc[h] = "markProcessing",
                            !.hwrote[h] = Append(S.hwrote[h], "processing")]
             ELSE \* setTimeout(..., 100), then the 'queued' response
                  IF AwaitsPipeline
                  THEN [S EXCEPT !.ppc[h] = "timer", !.hpc[h] = "awaitPipeline",
                                 !.call[HT(h)] = NoCall]
                  ELSE [Respond(S, h, 200, "queued") EXCEPT !.ppc[h] = "timer"]
        [] S.hpc[h] = "markProcessing" ->
             \* processItineraryJob(...) is called and not awaited
             IF AwaitsPipeline
             THEN EnterPipeline([S EXCEPT !.hpc[h] = "awaitPipeline",
                                          !.call[HT(h)] = NoCall], h)
             ELSE EnterPipeline(Respond(S, h, 200, "processing"), h)

\* ------------------------------------------- background run (pipeline)
\* what the model call can do: a 200 whose content parses (after repair) and
\* validates, a 200 whose content does not, a non-2xx response, the 45 s
\* abort, a transport error, a 200 whose body has no choices[0].message
ModelOutcomes == {"ok_parsed", "ok_unparseable", "not_ok", "abort",
                  "transport", "bad_body"}

\* mutant: the abort branch returns without recording the failure
OutcomeWrite_AbortUnwritten(outcome) ==
  IF outcome = "ok_parsed"
  THEN [status |-> "completed", result |-> "itinerary", error |-> Undefined]
  ELSE IF outcome = "abort"
  THEN [status |-> "processing", result |-> Undefined, error |-> Undefined]
  ELSE [status |-> "failed", result |-> Undefined, error |-> "Unknown error"]

\* mutant: the exception of a body without choices escapes unrecorded
OutcomeWrite_BadBodyUnwritten(outcome) ==
  IF outcome = "ok_parsed"
  THEN [status |-> "completed", result |-> "itinerary", error |-> Undefined]
  ELSE IF outcome = "bad_body"
  THEN [status |-> "processing", result |-> Undefined, error |-> Undefined]
  ELSE [status |-> "failed", result |-> Undefined, error |-> "Unknown error"]

\* the updateJobStatus call processItineraryJob makes for each outcome
OutcomeWrite(outcome) ==
  CASE outcome = "ok_parsed" ->
         [status |-> "completed", result |-> "itinerary", error |-> Undefined]
    [] outcome = "ok_unparseable" ->
         [status |-> "failed", result |-> "rawContent",
          error |-> "Unable to parse the generated itinerary data"]
    [] outcome = "not_ok" ->
         [status |-> "failed", result |-> Undefined,
          error |-> "Failed to generate itinerary: API error"]
    [] outcome = "abort" ->
         [status |-> "failed", result |-> Undefined,
          error |-> "The request to generate an itinerary timed out. Please try again."]
    [] OTHER ->
         [status |-> "failed", result |-> Undefined, error |-> "Unknown error"]

\* mutant: the failure is written without a message
InvalidKeyWrite_Silent ==
  [status |-> "failed", result |-> Undefined, error |-> Undefined]

\* the write made when the API key is missing or does not start with 'sk-'
InvalidKeyWrite ==
  [status |-> "failed", result |-> Undefined,
   error |-> "Invalid OpenAI API key configuration. Please check your environment variables."]

PipelineWrite(S, h, w) ==
  [updateJobStatusBegin(S, PT(h), S.hjob[h], w.status, w.result, w.error)
     EXCEPT !.pwrote[h] = Append(S.pwrote[h], w.status)]

\* development: the setTimeout callback marks the job processing
TimerCallback(S, h) ==
  [PipelineWrite(S, h, [status |-> "processing", result |-> Undefined,
                        error |-> Undefined])
     EXCEPT !.ppc[h] = "devProcessing"]

\* fetch('https://api.openai.com/v1/chat/completions', ...) is called
StartFetch(S, h) ==
  [S EXCEPT !.ppc[h] = "fetch", !.call[PT(h)] = NoCall,
            !.fetches[h] = S.fetches[h] + 1]

\* mutant: a non-success response is followed by a second call
AfterFetch_Retry(S, h, outcome) ==
  IF outcome = "not_ok" /\ S.fetches[h] < 2
  THEN StartFetch(S, h)
  ELSE [PipelineWrite(S, h, OutcomeWrite(outcome)) EXCEPT !.ppc[h] = "final"]

\* the model call ends (response, abort or error) and the outcome is written
AfterFetch(S, h, outcome) ==
  [PipelineWrite(S, h, OutcomeWrite(outcome)) EXCEPT !.ppc[h] = "final"]

\* the background run after the updateJobStatus call it awaited has returned
PipelineContinue(S, h) ==
  CASE S.ppc[h] = "devProcessing" ->
         \* the callback calls processItineraryJob
         EnterPipeline(S, h)
    [] S.ppc[h] = "processing" ->
         \* the prompt, the key check, then the fetch
         IF ~keyValid
         THEN [PipelineWrite(S, h, InvalidKeyWrite) EXCEPT !.ppc[h] = "final"]
         ELSE StartFetch(S, h)
    [] S.ppc[h] = "final" ->
         \* processItineraryJob resolves
         LET S1 == [S EXCEPT !.ppc[h] = "done", !.call[PT(h)] = NoCall]
         IN  IF S.hpc[h] = "awaitPipeline"
             THEN Respond(S1, h, 200, IF isProduction THEN "processing" ELSE "queued")
             ELSE S1

\* --------------------------------------------------------- the event loop
Resumable(S) ==
  {t \in Threads : t[1] \in {"H", "P"} /\ Returned(S.call[t])}

\* F applied to the value of x (x is evaluated once)
Apply(F(_), x) == CHOOSE r \in {F(v) : v \in {x}} : TRUE

\* the continuation of one resumable thread
Resume(S) ==
  LET t == CHOOSE x \in Resumable(S) : TRUE
  IN  IF t[1] = "H" THEN PostContinue(S, t[2]) ELSE PipelineContinue(S, t[2])

\* run every continuation whose awaited call has returned (the microtasks)
RECURSIVE Drain(_)
Drain(S) ==
  IF Resumable(S) = {} THEN S ELSE Apply(Drain, Resume(S))

\* one turn of the event loop, starting from the state X the event leaves
Turn(X) == \E S \in {Apply(Drain, X)} : Becomes(S)

\* ---------------------------------------------------------------- actions
otherVars == <<envVars, verifyPending, now, restarts, repairVars>>

\* what a new Date() may read after an earlier one in the same turn has
\* read `now`: the same millisecond or the next
ClockReads == {t \in {now, now + 1} : t <= MaxClock /\ (t = now \/ clockSkew)}

\* a create request arrives
PostArrives(h) ==
  /\ HT(h) \in clients
  /\ hpc[h] = "idle"
  /\ \E later \in ClockReads : Turn(PostBegin(Cur, h, later))
  /\ UNCHANGED otherVars

\* the durable tier answers the request thread t is waiting for
DurableResponds(t) ==
  /\ InFlight(call[t])
  /\ \E o \in DurableOutcomes : Turn(DurableAnswer(Cur, t, o))
  /\ UNCHANGED otherVars

\* development: the 100 ms timer of the create handler fires
TimerFires(h) ==
  /\ ppc[h] = "timer"
  /\ Turn(TimerCallback(Cur, h))
  /\ UNCHANGED otherVars

\* the model call of the background run ends
ModelResponds(h) ==
  /\ ppc[h] = "fetch"
  /\ \E outcome \in ModelOutcomes : Turn(AfterFetch(Cur, h, outcome))
  /\ UNCHANGED otherVars

\* the GET handler before a request: no jobId, no jobStatus, no response
NoPoll == [jobId |-> 0, jobStatus |-> NoView, code |-> 0, body |-> NoView]

\* the body { error: message } of a response
ErrorBody(message) ==
  [status |-> "error", result |-> Undefined, error |-> message]

\* mutant: the handler tests the returned object instead of its status
GetResponse_Falsy(jobStatus, threw) == [code |-> 200, body |-> jobStatus]

\* the response of the GET handler once getJobStatus has returned (or thrown)
GetResponse(jobStatus, threw) ==
  IF threw
  THEN [code |-> 500, body |-> ErrorBody("Failed to retrieve job status")]
  ELSE IF jobStatus.status = "not_found"
  THEN [code |-> 404, body |-> ErrorBody("Job not found")]
  ELSE [code |-> 200, body |-> jobStatus]

\* a status poll arrives: GET /api/job-status?jobId=...
PollArrives(p, jobId) ==
  /\ GT(p) \in clients
  /\ call[GT(p)].op = "none"
  /\ Turn([getJobStatusBegin(Cur, GT(p), jobId)
             EXCEPT !.gresp[p] = [NoPoll EXCEPT !.jobId = jobId]])
  /\ UNCHANGED otherVars

\* a status poll arrives without a jobId parameter: the 400 response
PollWithoutJobId(p) ==
  /\ GT(p) \in clients
  /\ call[GT(p)].op = "none"
  /\ Turn([Cur EXCEPT !.gresp[p] =
             [NoPoll EXCEPT !.code = 400,
                            !.body = ErrorBody("Missing jobId parameter")]])
  /\ UNCHANGED otherVars

\* the poll's response (404 for 'not_found', the job status otherwise) is sent
PollAnswered(p) ==
  /\ Returned(call[GT(p)])
  /\ LET c == call[GT(p)]
         r == GetResponse(c.retJob, c.threw)
     IN  Turn([Cur EXCEPT !.call[GT(p)] = NoCall,
                          !.gresp[p].jobStatus = c.retJob,
                          !.gresp[p].code = r.code,
                          !.gresp[p].body = r.body])
  /\ UNCHANGED otherVars

\* verifySupabaseConnection, started when the module is loaded: its catch
\* disables the tier on a network error
verifySupabaseConnection ==
  /\ verifyPending
  /\ verifyPending' = FALSE
  /\ \E o \in DurableOutcomes :
       Turn([Cur EXCEPT !.dis = IF o \in Throws
                                THEN (o = "throw_fetch" \/ supabaseDisabled)
                                ELSE supabaseDisabled])
  /\ UNCHANGED <<envVars, now, restarts, repairVars>>

\* Date.now() advances
Tick ==
  /\ now < MaxClock
  /\ now' = now + 1
  /\ Turn(Cur)
  /\ UNCHANGED <<envVars, verifyPending, restarts, repairVars>>

\* ------------------------------------------------- dates and time zones
\* Instants are hours since 00:00 UTC of day 0.  A time zone has the offset
\* off0 (hours) before the instant dstAt and off1 from it on.
UTC == [off0 |-> 0, dstAt |-> 0, off1 |-> 0]
Tokyo == [off0 |-> 9, dstAt |-> 0, off1 |-> 9]
\* America/New_York with the clock put forward at 02:00 of day 1
NewYorkSpring == [off0 |-> -5, dstAt |-> 24 + 7, off1 |-> -4]
\* America/New_York with the clock put back at 02:00 of day 1
NewYorkAutumn == [off0 |-> -4, dstAt |-> 24 + 6, off1 |-> -5]
TimeZones == {UTC, Tokyo, NewYorkSpring, NewYorkAutumn}

Days == 0..MaxDay
\* a `date` that new Date(...) cannot parse (absent, "Day 1")
InvalidDate == -100

Offset(z, u) == IF u < z.dstAt THEN z.off0 ELSE z.off1

\* new Date('YYYY-MM-DD'): midnight UTC of that day
ParseDate(d) == d * 24

\* getDate(): the local calendar day of an instant
LocalDay(z, u) == (u + Offset(z, u)) \div 24

\* the instant at which the local clock reads 12:00 on local day l
LocalNoon(z, l) ==
  LET u0 == l * 24 + 12 - z.off0
  IN  IF u0 < z.dstAt THEN u0 ELSE l * 24 + 12 - z.off1

\* date.setHours(12, 0, 0, 0)
SetHoursNoon(z, u) == LocalNoon(z, LocalDay(z, u))

\* toISOString().split('T')[0]: the UTC calendar day of an instant
IsoDate(u) == u \div 24

\* Math.floor(diffTime / (1000 * 60 * 60 * 24)) + 1
DayCount(z, startDate, endDate) ==
  ((SetHoursNoon(z, ParseDate(endDate)) - SetHoursNoon(z, ParseDate(startDate)))
     \div 24) + 1

\* currentDate.setDate(startDate.getDate() + i); toISOString().split('T')[0]
FormattedDate(z, startDate, i) ==
  IsoDate(LocalNoon(z, LocalDay(z, SetHoursNoon(z, ParseDate(startDate))) + i))

\* --------------------------------------------------------- JSON values
\* A scalar of the parsed JSON: its typeof tag, its number (in 1/10000) and
\* its text.
JUndefined == [type |-> "undefined", num |-> 0, str |-> ""]
JNull == [type |-> "null", num |-> 0, str |-> ""]
JBoolean == [type |-> "boolean", num |-> 0, str |-> "true"]
JNumber(n) == [type |-> "number", num |-> n, str |-> ""]
JString(t) == [type |-> "string", num |-> 0, str |-> t]
NaN == [type |-> "number", num |-> 0, str |-> "NaN"]

IsNumber(v) == v.type = "number"

\* the strings the model output is given in this model, and their parseFloat
ParseFloat(v) ==
  IF v.type = "string" /\ v.str = "48.8566" THEN JNumber(488566)
  ELSE IF v.type = "string" /\ v.str = "12" THEN JNumber(120000)
  ELSE IF v.type = "number" THEN v
  ELSE NaN

\* x || d for a number x: NaN and 0 are falsy
OrDefault(x, d) == IF x = NaN \/ x = JNumber(0) THEN d ELSE x

\* mutant: the default is the origin
DefaultCoordinates_Origin == [type |-> "object", lat |-> JNumber(0), lng |-> JNumber(0)]

\* { lat: 40.7128, lng: -74.0060 }
DefaultCoordinates ==
  [type |-> "object", lat |-> JNumber(407128), lng |-> JNumber(-740060)]

Coordinates(lat, lng) == [type |-> "object", lat |-> lat, lng |-> lng]
\* a coordinates value that is not an object: absent, null or a string
NoCoordinates(t) == [type |-> t, lat |-> JUndefined, lng |-> JUndefined]

Activity(coordinates, cost) ==
  [type |-> "object", coordinates |-> coordinates, cost |-> cost]
\* an entry of `activities` that is not an object: null or a string
NonObjectActivity(t) ==
  [type |-> t, coordinates |-> NoCoordinates("undefined"), cost |-> JUndefined]

\* ------------------------------------------- job-processor.ts: the repair
\* ensureValidCoordinates, for one activity
EnsureActivity(activity) ==
  IF activity.type # "object" THEN activity
  ELSE IF activity.coordinates.type # "object"
  THEN [activity EXCEPT !.coordinates = DefaultCoordinates]
  ELSE [activity EXCEPT
          !.coordinates.lat =
             IF IsNumber(@) THEN @
             ELSE OrDefault(ParseFloat(@), DefaultCoordinates.lat),
          !.coordinates.lng =
             IF IsNumber(@) THEN @
             ELSE OrDefault(ParseFloat(@), DefaultCoordinates.lng)]

ensureValidCoordinates(it) ==
  [it EXCEPT !.days =
     [i \in 1..Len(it.days) |->
        [it.days[i] EXCEPT !.activities =
           [j \in 1..Len(it.days[i].activities) |->
              EnsureActivity(it.days[i].activities[j])]]]]

\* ---------------------------------------------- direct route: the repair
\* the entry that replaces an `activities` entry that is not an object
PlaceholderActivity == Activity(DefaultCoordinates, JNumber(0))

\* "Ensure all days have properly formed activities with coordinates", for
\* one activity
NormalizeActivity(activity) ==
  IF activity.type # "object" THEN PlaceholderActivity
  ELSE
    LET c == activity.coordinates
        coordinates ==
          IF c.type # "object" THEN DefaultCoordinates
          ELSE [c EXCEPT
                  !.lat = IF @.type \in {"undefined", "null"}
                          THEN DefaultCoordinates.lat
                          ELSE IF @.type = "string"
                          THEN OrDefault(ParseFloat(@), DefaultCoordinates.lat)
                          ELSE @,
                  !.lng = IF @.type \in {"undefined", "null"}
                          THEN DefaultCoordinates.lng
                          ELSE IF @.type = "string"
                          THEN OrDefault(ParseFloat(@), DefaultCoordinates.lng)
                          ELSE @]
        cost == IF activity.cost.type \in {"undefined", "null"} THEN JNumber(0)
                ELSE IF activity.cost.type = "string"
                THEN OrDefault(ParseFloat(activity.cost), JNumber(0))
                ELSE activity.cost
    IN  [activity EXCEPT !.coordinates = coordinates, !.cost = cost]

NormalizeActivities(it) ==
  [it EXCEPT !.days =
     [i \in 1..Len(it.days) |->
        [it.days[i] EXCEPT !.activities =
           [j \in 1..Len(it.days[i].activities) |->
              NormalizeActivity(it.days[i].activities[j])]]]]

\* the day that is created for a date without a day
PlaceholderDay(formattedDate) ==
  [date |-> formattedDate,
   activities |->
     << Activity(Coordinates(JNumber(407128), JNumber(-740060)), JNumber(250000)),
        Activity(Coordinates(JNumber(407828), JNumber(-739654)), JNumber(150000)),
        Activity(Coordinates(JNumber(407590), JNumber(-739845)), JNumber(500000)) >>]

\* itinerary.days.find(day => day.date === formattedDate ||
\*   new Date(day.date).toISOString().split('T')[0] === formattedDate):
\* the index of the day found, 0 for undefined, -1 when toISOString() throws
\* a RangeError (an invalid date met before a matching day)
FindDay(days, formattedDate) ==
  LET matches == {k \in 1..Len(days) : days[k].date = formattedDate}
      first == IF matches = {} THEN Len(days) + 1
               ELSE CHOOSE k \in matches : \A m \in matches : k <= m
  IN  IF \E k \in 1..(first - 1) : days[k].date = InvalidDate THEN -1
      ELSE IF matches = {} THEN 0
      ELSE first

\* the itinerary a throw inside the try block leaves: the 500 response
Rejected == [ok |-> FALSE, days |-> <<>>]

\* "Fix the days array if needed"
ReconcileDays(z, survey, it) ==
  LET expectedDays == DayCount(z, survey.startDate, survey.endDate)
      found == [i \in 1..expectedDays |->
                  FindDay(it.days, FormattedDate(z, survey.startDate, i - 1))]
  IN  IF Len(it.days) = expectedDays THEN it
      ELSE IF \E i \in 1..expectedDays : found[i] = -1 THEN Rejected
      ELSE [it EXCEPT !.days =
              [i \in 1..expectedDays |->
                 IF found[i] # 0 THEN it.days[found[i]]
                 ELSE PlaceholderDay(FormattedDate(z, survey.startDate, i - 1))]]

\* ------------------------------------------------ model outputs considered
GoodCoordinates == Coordinates(JNumber(488566), JNumber(23522))
\* the values the model may give to lat, lng and cost
Scalars == {JUndefined, JNull, JBoolean, JString("48.8566"), JString("abc"),
            JNumber(120000)}

\* activities that differ in what they carry as coordinates and cost
Activities ==
  {NonObjectActivity("null"), NonObjectActivity("string")}
    \cup {Activity(NoCoordinates(t), JNumber(120000)) :
            t \in {"undefined", "null", "string"}}
    \cup {Activity(Coordinates(lat, lng), JNumber(120000)) :
            lat \in Scalars, lng \in Scalars}
    \cup {Activity(GoodCoordinates, cost) : cost \in Scalars}

\* the n-th day of the output, dated d: a good activity that carries n as its
\* cost, and an activity without coordinates
DatedDay(n, d) ==
  [date |-> d,
   activities |-> << Activity(GoodCoordinates, JNumber(n)),
                     Activity(NoCoordinates("undefined"), JNumber(120000)) >>]

\* outputs that differ in the number of days and in their dates
DatedOutputs ==
  UNION {{[ok |-> TRUE, days |-> [n \in 1..len |-> DatedDay(n, dates[n])]] :
            dates \in [1..len -> Days \cup {InvalidDate}]} :
         len \in 0..(MaxDay + 1)}

\* outputs of one day dated d, that differ in their one or two activities
ActivityOutputs(d) ==
  {[ok |-> TRUE, days |-> <<[date |-> d, activities |-> acts]>>] :
     acts \in {<<a>> : a \in Activities}
                \cup {<<a, b>> : a \in Activities, b \in Activities}}

NoItinerary == [ok |-> TRUE, days |-> <<>>]

\* no model output is being handled
\* let itinerary, before a parse has assigned it
NoValue == [type |-> "undefined", days |-> FALSE]

\* no setTimeout(pollJobStatus) is pending
NoTimer == [set |-> FALSE, pollCount |-> 0, notFoundCount |-> 0]

\* no component polls for a job
NoPoller ==
  /\ polledStatus = "queued"
  /\ pollCount = 0
  /\ notFoundCount = 0
  /\ timer = NoTimer
  /\ polls = {}
  /\ notFoundRun = 0
  /\ onCompleteCalls = 0
  /\ onErrorCalls = 0

\* no job ids are being translated
NoTimestamps ==
  /\ timestamps = <<>>
  /\ dbIds = <<>>

\* no text of the model is being parsed
NoContent ==
  /\ itineraryContent = <<>>
  /\ ladder = <<>>
  /\ parsed = NoValue
  /\ written = Undefined
  /\ NoTimestamps
  /\ NoPoller

NoModelOutput ==
  /\ tz = UTC
  /\ surveyData = [startDate |-> 0, endDate |-> 0]
  /\ candidate = NoItinerary
  /\ path = "none"
  /\ rpc = "idle"
  /\ durationDays = 0
  /\ itinerary = NoItinerary
  /\ NoContent

\* the state of the module and of the handlers before any request
JobsAtLoad ==
  /\ supabaseDisabled = FALSE
  /\ verifyPending = isSupabaseConfigured
  /\ inMemoryJobs = [id \in JobIds |-> NoJob]
  /\ db = [k \in DbKeys |-> NoRow]
  /\ now = 1
  /\ hpc = [h \in Handlers |-> "idle"]
  /\ hjob = [h \in Handlers |-> 0]
  /\ hretry = [h \in Handlers |-> 0]
  /\ resp = [h \in Handlers |-> [code |-> 0, status |-> "none"]]
  /\ jobCreated = [h \in Handlers |-> FALSE]
  /\ hwrote = [h \in Handlers |-> <<>>]
  /\ ppc = [h \in Handlers |-> "idle"]
  /\ pwrote = [h \in Handlers |-> <<>>]
  /\ fetchCalls = [h \in Handlers |-> 0]
  /\ gresp = [p \in Pollers |-> NoPoll]
  /\ opLog = {}
  /\ call = [t \in Threads |-> NoCall]
  /\ restarts = 0
  /\ lastWritten = [id \in JobIds |-> NoView]

\* the configuration of the process and the behaviour of the durable tier
Environment ==
  /\ isSupabaseConfigured \in BOOLEAN
  /\ isProduction \in BOOLEAN
  /\ keyValid \in BOOLEAN
  /\ durableDown \in BOOLEAN
  /\ durableDown => isSupabaseConfigured

Init ==
  /\ clients \in Workloads
  /\ Environment
  /\ clockSkew = FALSE
  /\ JobsAtLoad
  /\ NoModelOutput

Next ==
  \/ verifySupabaseConnection
  \/ Tick
  \/ \E h \in Handlers : PostArrives(h)
  \/ \E t \in Threads : DurableResponds(t)
  \/ \E h \in Handlers : TimerFires(h)
  \/ \E h \in Handlers : ModelResponds(h)
  \/ \E p \in Pollers, jobId \in JobIds : PollArrives(p, jobId)
  \/ \E p \in Pollers : PollWithoutJobId(p)
  \/ \E p \in Pollers : PollAnswered(p)

Spec == Init /\ [][Next]_vars

\* the background runs make progress: the durable tier answers, the model
\* call ends (at the latest by its 45 s abort), the timer fires
Fairness ==
  \A h \in Handlers : /\ WF_vars(DurableResponds(PT(h)))
                      /\ WF_vars(ModelResponds(h))
                      /\ WF_vars(TimerFires(h))

\* a create request and the polls for its job, with fair background runs
InitPolled == Init /\ clients = {HT("a"), GT("p")}

FairSpec == InitPolled /\ [][Next]_vars /\ Fairness

\* every durable-tier request of a status poll is answered (or fails) in
\* the end
ReadFairness == \A p \in Pollers : WF_vars(DurableResponds(GT(p)))

\* a create request and the polls for its job, with a durable tier that
\* answers the polls' reads
FairReadSpec == InitPolled /\ [][Next]_vars /\ ReadFairness

\* the model call ends and the timer fires, while a request to the durable
\* tier may stay unanswered: no call of the store has a timeout
ModelFairness ==
  \A h \in Handlers : WF_vars(ModelResponds(h)) /\ WF_vars(TimerFires(h))

\* a create request and the polls for its job, with a durable tier that may
\* leave requests unanswered
UnansweredSpec == InitPolled /\ [][Next]_vars /\ ModelFairness

\* a create request and the polls for its job, with a clock whose millisecond
\* may change between two reads made in the same turn
InitSkewed ==
  /\ clients = {HT("a"), GT("p")}
  /\ Environment
  /\ clockSkew = TRUE
  /\ JobsAtLoad
  /\ NoModelOutput

SkewSpec == InitSkewed /\ [][Next]_vars

\* The process is replaced by a fresh instance (a serverless cold start): the
\* module is loaded again, so the in-memory map is empty, the disable flag is
\* false and the connection check runs; what the old instance was doing is
\* lost.  The durable tier keeps its rows.
Restart ==
  /\ restarts < MaxRestarts
  /\ restarts' = restarts + 1
  /\ inMemoryJobs' = [id \in JobIds |-> NoJob]
  /\ supabaseDisabled' = FALSE
  /\ verifyPending' = isSupabaseConfigured
  /\ call' = [t \in Threads |-> NoCall]
  /\ hpc' = [h \in Handlers |-> IF hpc[h] \in {"idle", "done"} THEN hpc[h] ELSE "killed"]
  /\ ppc' = [h \in Handlers |-> IF ppc[h] \in {"idle", "done"} THEN ppc[h] ELSE "killed"]
  /\ UNCHANGED <<envVars, db, now, hjob, hretry, resp, jobCreated, hwrote, pwrote,
                 fetchCalls, gresp, opLog, lastWritten, repairVars>>

NextR == Next \/ Restart

SpecR == Init /\ [][NextR]_vars

\* ------------------------------------- handling of one model output
\* generatePrompt(surveyData): the day count put into the prompt
GeneratePrompt ==
  /\ rpc = "start"
  /\ durationDays' = DayCount(tz, surveyData.startDate, surveyData.endDate)
  /\ rpc' = "prompted"
  /\ UNCHANGED <<jobVars, tz, surveyData, candidate, path, itinerary, parseVars,
                 keyVars, pollerVars>>

\* job-processor.ts: ensureValidCoordinates(itinerary), then
\* updateJobStatus(jobId, 'completed', { result: { itinerary, prompt } })
PipelineCompletes ==
  /\ rpc = "prompted" /\ path = "job"
  /\ itinerary' = ensureValidCoordinates(candidate)
  /\ rpc' = "done"
  /\ UNCHANGED <<jobVars, tz, surveyData, candidate, path, durationDays,
                 parseVars, keyVars, pollerVars>>

\* direct route: the loop over the days and their activities
RouteNormalizes ==
  /\ rpc = "prompted" /\ path = "direct"
  /\ itinerary' = NormalizeActivities(candidate)
  /\ rpc' = "normalized"
  /\ UNCHANGED <<jobVars, tz, surveyData, candidate, path, durationDays,
                 parseVars, keyVars, pollerVars>>

\* direct route: the days array is fixed and the response is sent
\* ({ itinerary, prompt }, or the 500 when the try block threw)
RouteResponds ==
  /\ rpc = "normalized" /\ path = "direct"
  /\ itinerary' = ReconcileDays(tz, surveyData, itinerary)
  /\ rpc' = "done"
  /\ UNCHANGED <<jobVars, tz, surveyData, candidate, path, durationDays,
                 parseVars, keyVars, pollerVars>>

\* a request and the itinerary parsed from the model's answer to it
RepairInit ==
  /\ clients = {HT("a"), GT("p")}
  /\ isSupabaseConfigured = FALSE
  /\ isProduction = TRUE
  /\ keyValid = TRUE
  /\ durableDown = FALSE
  /\ clockSkew = FALSE
  /\ JobsAtLoad
  /\ path \in {"job", "direct"}
  /\ rpc = "start"
  /\ durationDays = 0
  /\ itinerary = NoItinerary
  /\ NoContent
  /\ \/ /\ tz \in TimeZones
        /\ surveyData \in {[startDate |-> s, endDate |-> e] :
                             s \in Days, e \in Days}
        /\ surveyData.startDate <= surveyData.endDate
        /\ candidate \in DatedOutputs
     \/ /\ tz = UTC
        /\ surveyData = [startDate |-> 0, endDate |-> 0]
        /\ candidate \in ActivityOutputs(0)

RepairNext ==
  \/ GeneratePrompt
  \/ PipelineCompletes
  \/ RouteNormalizes
  \/ RouteResponds

RepairSpec == RepairInit /\ [][RepairNext]_vars

\* ------------------------------------------- parsing of the model's text
\* The text of the model is a sequence of fragments:
\*   "x"  200 characters of prose without quotes, colons, commas or braces
\*   "s"  the string literal "s"
\*   "{"  "}"  ","  a brace or a comma
\*   "d"  the member "days":[]
\*   "q"  the same member with its name in single quotes, 'days':[]
\*   "u"  the same member with its name unquoted, days:[]
Fragments == {"x", "s", "{", "}", ",", "d", "q", "u"}

\* the number of characters of a fragment, and text.length
Chars(f) ==
  CASE f = "x" -> 200
    [] f \in {"d", "q"} -> 9
    [] f = "u" -> 7
    [] f = "s" -> 3
    [] OTHER -> 1

RECURSIVE Length(_)
Length(text) ==
  IF text = <<>> THEN 0 ELSE Chars(text[1]) + Length(Tail(text))

MaxContent == 4

Contents == UNION {[1..n -> Fragments] : n \in 0..MaxContent}

\* the values JSON.parse gives here: an object (with or without days) or a
\* string
StringValue == [type |-> "string", days |-> FALSE]

ObjectValue(days) == [type |-> "object", days |-> days]

Thrown == [threw |-> TRUE, value |-> NoValue]

\* JSON.parse(text): of the texts made of the fragments, "s" is a string, the
\* objects are {} and { "days":[] , ... , "days":[] }; every other text is a
\* SyntaxError
JSONparse(text) ==
  LET n == Len(text)
      members == SubSeq(text, 2, n - 1)
  IN IF text = <<"s">> THEN [threw |-> FALSE, value |-> StringValue]
     ELSE
     IF /\ n >= 2 /\ text[1] = "{" /\ text[n] = "}"
        /\ \/ members = <<>>
           \/ /\ Len(members) % 2 = 1
              /\ \A i \in 1..Len(members) :
                   members[i] = IF i % 2 = 1 THEN "d" ELSE ","
     THEN [threw |-> FALSE, value |-> ObjectValue(members # <<>>)]
     ELSE Thrown

\* text.indexOf(f), text.lastIndexOf(f), counted from 1; 0 when f is absent
indexOf(text, f) ==
  IF \E i \in 1..Len(text) : text[i] = f
  THEN CHOOSE i \in 1..Len(text) :
         text[i] = f /\ \A k \in 1..(i - 1) : text[k] # f
  ELSE 0

lastIndexOf(text, f) ==
  IF \E i \in 1..Len(text) : text[i] = f
  THEN CHOOSE i \in 1..Len(text) :
         text[i] = f /\ \A k \in (i + 1)..Len(text) : text[k] # f
  ELSE 0

NoMatch == <<>>

\* text.match(/\{[\s\S]*\}/): from the first { to the last } after it
BraceMatch(text) ==
  LET firstBrace == indexOf(text, "{")
      lastBrace == lastIndexOf(text, "}")
  IN IF firstBrace = 0 \/ lastBrace = 0 \/ firstBrace >= lastBrace
     THEN NoMatch
     ELSE SubSeq(text, firstBrace, lastBrace)

\* replace(/'/g, '"'), and step 4 of sanitizeJSON: a name in single quotes
\* gets double quotes
DoubleQuoted(text) ==
  [i \in 1..Len(text) |-> IF text[i] = "q" THEN "d" ELSE text[i]]

\* replace(/([{,]\s*)(\w+)(\s*:)/g, '$1"$2"$3'): a bare name that follows
\* a brace or a comma is quoted
QuotedKeys(text) ==
  [i \in 1..Len(text) |->
     IF text[i] = "u" /\ i > 1 /\ text[i - 1] \in {"{", ","}
     THEN "d" ELSE text[i]]

\* replace(/,\s*}/g, '}'): a comma before a closing brace is removed
RECURSIVE NoTrailingCommas(_)
NoTrailingCommas(text) ==
  IF text = <<>> THEN <<>>
  ELSE IF Len(text) >= 2 /\ text[1] = "," /\ text[2] = "}"
       THEN <<"}">> \o NoTrailingCommas(SubSeq(text, 3, Len(text)))
       ELSE <<text[1]>> \o NoTrailingCommas(Tail(text))

\* replace(/,\s*,/g, ','): two commas become one
RECURSIVE NoDoubleCommas(_)
NoDoubleCommas(text) ==
  IF text = <<>> THEN <<>>
  ELSE IF Len(text) >= 2 /\ text[1] = "," /\ text[2] = ","
       THEN <<",">> \o NoDoubleCommas(SubSeq(text, 3, Len(text)))
       ELSE <<text[1]>> \o NoDoubleCommas(Tail(text))

\* replace(/}\s*{/g, '}, {'): a comma is put between two adjacent objects
RECURSIVE CommaBetweenObjects(_)
CommaBetweenObjects(text) ==
  IF text = <<>> THEN <<>>
  ELSE IF Len(text) >= 2 /\ text[1] = "}" /\ text[2] = "{"
       THEN <<"}", ",", "{">> \o CommaBetweenObjects(SubSeq(text, 3, Len(text)))
       ELSE <<text[1]>> \o CommaBetweenObjects(Tail(text))

\* sanitizeJSON(jsonString): the text is cut to its braces, quoted names get
\* double quotes, trailing and double commas are removed (the other steps
\* change no text made of the fragments)
sanitizeJSON(jsonString) ==
  LET firstCurlyIndex == indexOf(jsonString, "{")
      lastCurlyIndex == lastIndexOf(jsonString, "}")
      cleanedJSON ==
        IF firstCurlyIndex # 0 /\ lastCurlyIndex # 0
           /\ lastCurlyIndex > firstCurlyIndex
        THEN SubSeq(jsonString, firstCurlyIndex, lastCurlyIndex)
        ELSE jsonString
  IN NoDoubleCommas(NoTrailingCommas(DoubleQuoted(cleanedJSON)))

\* job-processor.ts: let lastResortJSON, after its replacements
lastResortJSON(content) == QuotedKeys(DoubleQuoted(content))

\* direct route: let fixedJSON, after its replacements
fixedJSON(jsonContent) == CommaBetweenObjects(QuotedKeys(jsonContent))

\* one parse of the ladder: the strategy and what its JSON.parse gave
Try(strategy, text) == [strategy |-> strategy, produced |-> JSONparse(text)]

Fails(strategy) == [strategy |-> strategy, produced |-> Thrown]

\* the catch block of a parse runs when the parse threw
Caught_Always(attempt) == TRUE

Caught(attempt) == attempt.produced.threw

\* the end of the parse: the attempts made and the itinerary of the last one
Ends(attempts) ==
  [ladder |-> attempts,
   threw |-> attempts[Len(attempts)].produced.threw,
   itinerary |-> attempts[Len(attempts)].produced.value]

\* job-processor.ts: the loop over lastResortJSON.match(/(\{[\s\S]*\})/g),
\* which keeps the first match that parses to an object with days
SubstringExtraction(text) ==
  LET match == BraceMatch(text)
      possibleJSON == JSONparse(match)
  IN IF match # NoMatch /\ ~possibleJSON.threw /\ possibleJSON.value.days
     THEN [strategy |-> "substring", produced |-> possibleJSON]
     ELSE Fails("substring")

\* job-processor.ts: the loop over startPos, which keeps the first
\* substring whose braces parse
ChunkExtraction(text) ==
  LET subMatch(startPos) == BraceMatch(SubSeq(text, startPos, Len(text)))
      valid == {startPos \in 1..Len(text) :
                  /\ Length(SubSeq(text, 1, startPos - 1)) < 200
                  /\ subMatch(startPos) # NoMatch
                  /\ ~JSONparse(subMatch(startPos)).threw}
  IN IF valid = {} THEN Fails("chunks")
     ELSE Try("chunks", subMatch(CHOOSE p \in valid : \A o \in valid : p <= o))

\* job-processor.ts: the parse of itineraryContent in processItineraryJob
processItineraryJobParse(content) ==
  LET direct == Try("direct", content)
      jsonMatch == BraceMatch(content)
      extracted == IF jsonMatch = NoMatch THEN Fails("extraction")
                   ELSE Try("extraction", jsonMatch)
      sanitized == Try("sanitize", sanitizeJSON(content))
      lastResort == Try("lastResort", lastResortJSON(content))
      substring == SubstringExtraction(lastResortJSON(content))
      chunks == ChunkExtraction(content)
  IN IF ~Caught(direct) THEN Ends(<<direct>>)
     ELSE IF jsonMatch = NoMatch THEN Ends(<<direct, extracted, chunks>>)
     ELSE IF ~Caught(extracted) THEN Ends(<<direct, extracted>>)
     ELSE IF ~Caught(sanitized) THEN Ends(<<direct, extracted, sanitized>>)
     ELSE IF ~Caught(lastResort)
          THEN Ends(<<direct, extracted, sanitized, lastResort>>)
     ELSE Ends(<<direct, extracted, sanitized, lastResort, substring>>)

\* direct route: the parse of itineraryContent in POST
routeParse(content) ==
  LET direct == Try("direct", content)
      jsonContent == BraceMatch(content)
      extracted == IF jsonContent = NoMatch THEN Fails("extraction")
                   ELSE Try("extraction", jsonContent)
      repaired == Try("repair", fixedJSON(jsonContent))
  IN IF ~Caught(direct) THEN Ends(<<direct>>)
     ELSE IF jsonContent = NoMatch THEN Ends(<<direct, extracted>>)
     ELSE IF ~Caught(extracted) THEN Ends(<<direct, extracted>>)
     ELSE Ends(<<direct, extracted, repaired>>)

\* !itinerary || typeof itinerary !== 'object' is false
IsObject(value) == value.type = "object"

\* the parse gave an itinerary: no parse of the ladder is left and the value
\* of the last one is an object
Accepted(end) == ~end.threw /\ IsObject(end.itinerary)

\* mutant: the whole text is kept
substring_Whole(text, start, end) ==
  [of |-> text, start |-> start, length |-> Length(text) - start]

\* text.substring(start, end), as the text and the characters kept of it
substring(text, start, end) ==
  [of |-> text, start |-> start,
   length |-> IF Length(text) < end THEN Length(text) - start ELSE end - start]

\* parseError.message: the error of the direct parse, which the later
\* parses rethrow, or the error of the validation
errorMessage(end) ==
  IF end.threw THEN "SyntaxError" ELSE "Parsed result is not a valid object"

\* job-processor.ts: the updateJobStatus call after the parse: completed with
\* the itinerary that ensureValidCoordinates has given its days, or failed
\* with a sample of the text and the message of the parse error
ParseWrite(content, end) ==
  IF Accepted(end)
  THEN [status |-> "completed", error |-> Undefined,
        result |-> [itinerary |-> ObjectValue(TRUE)]]
  ELSE [status |-> "failed",
        error |-> "Unable to parse the generated itinerary data",
        result |-> [rawContent |-> substring(content, 0, 500),
                    errorMessage |-> errorMessage(end)]]

\* job-processor.ts: the model's text is parsed; the itinerary goes on to
\* ensureValidCoordinates and is written, a failure goes to the catch block
\* that fails the job
ProcessorParses ==
  /\ rpc = "received" /\ path = "job"
  /\ LET end == processItineraryJobParse(itineraryContent)
     IN /\ ladder' = end.ladder
        /\ parsed' = end.itinerary
        /\ rpc' = IF Accepted(end) THEN "parsed" ELSE "failed"
        /\ written' = ParseWrite(itineraryContent, end)
  /\ UNCHANGED <<jobVars, tz, surveyData, candidate, path, durationDays,
                 itinerary, itineraryContent, keyVars, pollerVars>>

\* direct route: the model's text is parsed; the itinerary goes on to the
\* loop over its days, a failure (or a value that takes no dates property)
\* to the catch block that answers 500
RouteParses ==
  /\ rpc = "received" /\ path = "direct"
  /\ LET end == routeParse(itineraryContent)
     IN /\ ladder' = end.ladder
        /\ parsed' = end.itinerary
        /\ rpc' = IF Accepted(end) THEN "parsed" ELSE "failed"
  /\ UNCHANGED <<jobVars, tz, surveyData, candidate, path, durationDays,
                 itinerary, itineraryContent, written, keyVars, pollerVars>>

\* a text of the model, received by the background run or by the direct route
ParseInit ==
  /\ clients = {HT("a"), GT("p")}
  /\ isSupabaseConfigured = FALSE
  /\ isProduction = TRUE
  /\ keyValid = TRUE
  /\ durableDown = FALSE
  /\ clockSkew = FALSE
  /\ JobsAtLoad
  /\ tz = UTC
  /\ surveyData = [startDate |-> 0, endDate |-> 0]
  /\ candidate = NoItinerary
  /\ durationDays = 0
  /\ itinerary = NoItinerary
  /\ path \in {"job", "direct"}
  /\ rpc = "received"
  /\ itineraryContent \in Contents
  /\ ladder = <<>>
  /\ parsed = NoValue
  /\ written = Undefined
  /\ NoTimestamps
  /\ NoPoller

ParseNext ==
  \/ ProcessorParses
  \/ RouteParses

ParseSpec == ParseInit /\ [][ParseNext]_vars

\* ------------------------------------------- keys of real job ids
\* Date.now() has 13 decimal digits; two values 19.5 hours apart, and the
\* milliseconds that differ from them in the last digit
BaseTimestamps ==
  {<<1, 7, 0, 0, 0, 7, 1, 0, 0, 0, 7, 1, 0>>,
   <<1, 7, 0, 0, 0, 0, 0, 7, 2, 1, 0, 0, 6>>}

Timestamps ==
  {[b EXCEPT ![13] = d] : b \in BaseTimestamps, d \in 0..9}

\* generateJobId: `job_${timestamp}` as its UTF-16 code units
JobIdOf(timestamp) ==
  <<106, 111, 98, 95>> \o [i \in 1..Len(timestamp) |-> 48 + timestamp[i]]

\* two create requests get their job ids
TwoJobIds ==
  /\ timestamps = <<>>
  /\ \E a \in Timestamps, b \in Timestamps : timestamps' = <<a, b>>
  /\ UNCHANGED <<jobVars, tz, surveyData, candidate, path, rpc, durationDays,
                 itinerary, parseVars, dbIds, pollerVars>>

\* createJob / updateJobStatus / getJobStatus: const dbId =
\* getDbCompatibleId(jobId), for the two job ids
TranslateJobIds ==
  /\ timestamps # <<>> /\ dbIds = <<>>
  /\ dbIds' = [i \in 1..2 |-> getDbCompatibleId(JobIdOf(timestamps[i]))]
  /\ UNCHANGED <<jobVars, tz, surveyData, candidate, path, rpc, durationDays,
                 itinerary, parseVars, timestamps, pollerVars>>

KeyInit ==
  /\ clients = {HT("a"), HT("b")}
  /\ isSupabaseConfigured = TRUE
  /\ isProduction = TRUE
  /\ keyValid = TRUE
  /\ durableDown = FALSE
  /\ clockSkew = FALSE
  /\ JobsAtLoad
  /\ NoModelOutput

KeyNext ==
  \/ TwoJobIds
  \/ TranslateJobIds

KeySpec == KeyInit /\ [][KeyNext]_vars

\* --------------------------------------------- the polling component
\* JobStatusPoller.tsx: const MAX_NOT_FOUND_RETRIES = 5
MAX_NOT_FOUND_RETRIES == 5

\* the prop maxPolls (60 by default)
maxPolls == 7

isCompleted(s) == s = "completed"
isFailed(s) == s = "failed"

\* no response has been received
NoResponse == [ok |-> FALSE, code |-> 0, status |-> "none", itinerary |-> FALSE]

\* what GET /api/job-status answers: 404 for a job not found, 500 for a read
\* that threw, 200 with the job's record (itinerary: data.result?.itinerary)
Responses ==
  {[ok |-> FALSE, code |-> c, status |-> "none", itinerary |-> FALSE] :
     c \in {404, 500}}
  \cup {[ok |-> TRUE, code |-> 200, status |-> s, itinerary |-> FALSE] :
          s \in {"queued", "processing", "failed", "completed"}}
  \cup {[ok |-> TRUE, code |-> 200, status |-> "completed", itinerary |-> TRUE]}

\* the body of useEffect for the state of a render: the timer it leaves
\* pending, with the pollCount and notFoundCount pollJobStatus closes over
Effect(s, count, notFound) ==
  IF isCompleted(s) \/ isFailed(s) \/ count >= maxPolls
  THEN NoTimer
  ELSE [set |-> TRUE, pollCount |-> count, notFoundCount |-> notFound]

\* the render that follows a batch of state updates: when a dependency of
\* the effect has changed, its cleanup clears the timer and its body runs
Render ==
  timer' = IF <<polledStatus', pollCount', notFoundCount'>>
              = <<polledStatus, pollCount, notFoundCount>>
           THEN timer
           ELSE Effect(polledStatus', pollCount', notFoundCount')

\* catch (error): onError only after more than 5 polls
CatchReports(p) == IF p.pollCount > 5 THEN 1 ELSE 0

\* the number of status requests that can be outstanding at once
MaxInFlight == 2

\* the timer fires: pollJobStatus runs up to await fetch(...)
PollStarts ==
  /\ timer.set
  /\ Cardinality(polls) < MaxInFlight
  /\ polls' = polls \cup {[pollCount |-> timer.pollCount,
                           notFoundCount |-> timer.notFoundCount,
                           at |-> "fetch", data |-> NoResponse]}
  /\ timer' = NoTimer
  /\ UNCHANGED <<polledStatus, pollCount, notFoundCount, notFoundRun,
                 onCompleteCalls, onErrorCalls>>

\* the response arrives: pollJobStatus runs from await fetch(...) to its
\* return, or to await response.json() when the response is ok
PollResponds(p, r) ==
  /\ p \in polls /\ p.at = "fetch"
  /\ IF r.ok
     THEN /\ notFoundCount' = IF p.notFoundCount > 0 THEN 0 ELSE notFoundCount
          /\ polls' = (polls \ {p}) \cup {[p EXCEPT !.at = "json", !.data = r]}
          /\ notFoundRun' = 0
          /\ UNCHANGED <<pollCount, onErrorCalls>>
     ELSE /\ polls' = polls \ {p}
          /\ pollCount' = pollCount + 1
          /\ IF r.code = 404
             THEN /\ notFoundCount' = p.notFoundCount + 1
                  /\ notFoundRun' = notFoundRun + 1
                  /\ onErrorCalls' =
                       IF p.notFoundCount + 1 >= MAX_NOT_FOUND_RETRIES
                       THEN onErrorCalls + CatchReports(p)
                       ELSE onErrorCalls
             ELSE /\ notFoundRun' = 0
                  /\ onErrorCalls' = onErrorCalls + CatchReports(p)
                  /\ UNCHANGED notFoundCount
  /\ UNCHANGED <<polledStatus, onCompleteCalls>>
  /\ Render

\* the body has been read: pollJobStatus runs from await response.json()
\* to its end
PollReadsBody(p) ==
  /\ p \in polls /\ p.at = "json"
  /\ polledStatus' = p.data.status
  /\ onCompleteCalls' =
       IF isCompleted(p.data.status) /\ p.data.itinerary
       THEN onCompleteCalls + 1 ELSE onCompleteCalls
  /\ onErrorCalls' =
       IF \/ isCompleted(p.data.status) /\ ~p.data.itinerary
          \/ isFailed(p.data.status)
       THEN onErrorCalls + 1 ELSE onErrorCalls
  /\ pollCount' = pollCount + 1
  /\ polls' = polls \ {p}
  /\ UNCHANGED <<notFoundCount, notFoundRun>>
  /\ Render

\* the component has been mounted for a job id: its effect has run once
PollerInit ==
  /\ clients = {GT("p")}
  /\ isSupabaseConfigured = TRUE
  /\ isProduction = TRUE
  /\ keyValid = TRUE
  /\ durableDown = FALSE
  /\ clockSkew = FALSE
  /\ JobsAtLoad
  /\ tz = UTC
  /\ surveyData = [startDate |-> 0, endDate |-> 0]
  /\ candidate = NoItinerary
  /\ path = "none"
  /\ rpc = "idle"
  /\ durationDays = 0
  /\ itinerary = NoItinerary
  /\ itineraryContent = <<>>
  /\ ladder = <<>>
  /\ parsed = NoValue
  /\ written = Undefined
  /\ timestamps = <<>>
  /\ dbIds = <<>>
  /\ polledStatus = "queued"
  /\ pollCount = 0
  /\ notFoundCount = 0
  /\ timer = Effect("queued", 0, 0)
  /\ polls = {}
  /\ notFoundRun = 0
  /\ onCompleteCalls = 0
  /\ onErrorCalls = 0

PollerNext ==
  \/ PollStarts /\ UNCHANGED <<jobVars, tz, surveyData, candidate, path, rpc,
                               durationDays, itinerary, parseVars, keyVars>>
  \/ \E p \in polls, r \in Responses :
       PollResponds(p, r) /\ UNCHANGED <<jobVars, tz, surveyData, candidate,
                                         path, rpc, durationDays, itinerary,
                                         parseVars, keyVars>>
  \/ \E p \in polls :
       PollReadsBody(p) /\ UNCHANGED <<jobVars, tz, surveyData, candidate,
                                       path, rpc, durationDays, itinerary,
                                       parseVars, keyVars>>

PollerSpec == PollerInit /\ [][PollerNext]_vars

\* ------------------------------------------------------------- properties
Norm(v) == IF Present(v) THEN v ELSE Undefined

\* the same status, result and error (absent is absent, null or undefined)
SameJob(a, b) ==
  /\ a.status = b.status
  /\ Norm(a.result) = Norm(b.result)
  /\ Norm(a.error) = Norm(b.error)

\* what a poll should see of the last write (nothing written: not found)
Expected(v) == IF v.status = "none" THEN NotFound ELSE v

TypeOK ==
  /\ supabaseDisabled \in BOOLEAN
  /\ now \in 1..MaxClock
  /\ \A id \in JobIds : inMemoryJobs[id].status \in
        {"absent", "queued", "processing", "completed", "failed"}
  /\ \A k \in DbKeys : db[k].status \in
        {"absent", "queued", "processing", "completed", "failed"}

\* C1: once the stored status of a job is completed or failed, no later
\* createJob or updateJobStatus for that id changes what the store holds for
\* it (status, result, error).
C1_TerminalAbsorbing ==
  [][\A id \in JobIds :
       inMemoryJobs[id].status \in Terminal
         => lastWritten'[id] = lastWritten[id]]_vars

WellFormedJob(j) ==
  /\ Present(j.result) <=> j.status = "completed"
  /\ Present(j.error) <=> j.status = "failed"
  /\ ~(Present(j.result) /\ Present(j.error))

\* C2: in both tiers every job record has a result iff it is completed, an
\* error iff it is failed, and never both.
C2_ResultErrorInvariant ==
  /\ \A id \in JobIds :
       inMemoryJobs[id].status # "absent" => WellFormedJob(inMemoryJobs[id])
  /\ \A k \in DbKeys : db[k].status # "absent" => WellFormedJob(db[k])

PipelineStarted(h) == ppc[h] \in {"processing", "fetch", "final", "done"}
WroteTerminal(h) == \E i \in 1..Len(pwrote[h]) : pwrote[h][i] \in Terminal

PollReturns(p) == ~Returned(call[GT(p)]) /\ Returned(call'[GT(p)])

\* C4: when getJobStatus returns, it returns the status, result and error of
\* the most recent createJob/updateJobStatus write for that id.
C4_PollReflectsLastWrite ==
  [][\A p \in Pollers :
       PollReturns(p) =>
         SameJob(call'[GT(p)].retJob,
                 Expected(lastWritten'[call'[GT(p)].id]))]_vars

\* C5: getJobStatus returns 'not_found' only when the record is absent from
\* the primary tier and from the (usable) durable tier.
C5_NotFoundOnlyIfAbsentInBoth ==
  [][\A p \in Pollers :
       PollReturns(p) /\ call'[GT(p)].retJob.status = "not_found" =>
         /\ inMemoryJobs[call'[GT(p)].id].status = "absent"
         /\ shouldUseSupabase(Cur) =>
              db[DbKey(call'[GT(p)].id)].status = "absent"]_vars

\* C6: with the durable tier failing every request with a connectivity error,
\* getJobStatus returns the status, result and error that were the most
\* recent write for the id when the call was made.
C6_FallbackReturnsLastWrite ==
  durableDown =>
    \A p \in Pollers :
      Returned(call[GT(p)]) =>
        SameJob(call[GT(p)].retJob, Expected(call[GT(p)].lwAtCall))

C6_Witness ==
  /\ durableDown
  /\ \E p \in Pollers :
       /\ Returned(call[GT(p)])
       /\ call[GT(p)].retJob.status \in Terminal
       /\ supabaseDisabled

AllOutcomes == {"ok", "error", "throw_fetch", "throw_other"}

\* C7: updateJobStatus returns true whatever the durable tier does, and the
\* durable part of the call leaves the primary tier as the call wrote it.
C7_PrimaryWriteIsSuccess ==
  /\ \A e \in opLog : e.op = "update" => e.ok /\ ~e.threw
  /\ \A t \in Threads :
       call[t].op = "update" /\ InFlight(call[t]) =>
         \A o \in AllOutcomes :
           /\ DurableAnswer(Cur, t, o).mem = inMemoryJobs
           /\ Returned(DurableAnswer(Cur, t, o).call[t]) =>
                DurableAnswer(Cur, t, o).call[t].retBool

C7_Witness ==
  \E h \in Handlers :
    /\ isSupabaseConfigured /\ ~durableDown
    /\ ppc[h] = "done"
    /\ inMemoryJobs[hjob[h]].status \in Terminal
    /\ db[DbKey(hjob[h])].status \notin Terminal
    /\ [op |-> "update", threw |-> FALSE, ok |-> TRUE] \in opLog

C9_UniqueJobIds ==
  \A h1, h2 \in Handlers :
    h1 # h2 /\ hjob[h1] # 0 /\ hjob[h2] # 0 => hjob[h1] # hjob[h2]

Responded(h) == resp[h].status \in {"queued", "processing"}

\* C10: the create handler sends its 'queued'/'processing' response without
\* waiting for the model call: whenever there is a model call to make, the
\* response is sent before that call has ended, and the background run
\* finishes after the response.
C10_RespondsBeforePipelineEnds ==
  /\ [][\A h \in Handlers :
          ~Responded(h) /\ Responded(h)' /\ keyValid =>
             ppc'[h] \in {"timer", "devProcessing", "processing", "fetch"}]_vars
  /\ \A h \in Handlers : Responded(h) ~> (ppc[h] = "done")

C10_Witness ==
  \E h \in Handlers :
    /\ Responded(h) /\ ppc[h] = "fetch"
    /\ inMemoryJobs[hjob[h]].status = "processing"

\* C11: processItineraryJob makes no transition for a job before the create
\* handler has seen createJob return success for it; without that success the
\* background run is never started.
C11_PipelineAfterCreate ==
  \A h \in Handlers : ppc[h] # "idle" => jobCreated[h]

C11_Witness ==
  \E h \in Handlers :
    /\ jobCreated[h] /\ ppc[h] = "done" /\ WroteTerminal(h)
    /\ isSupabaseConfigured /\ db[DbKey(hjob[h])].status = "absent"

\* C12: when the durable write of the queued record fails, createJob reports
\* the failure and the create handler either retries (fewer than maxRetries
\* attempts made) or, after the last attempt, answers with an error and
\* starts no background run.
C12_FailedCreationIsRetried ==
  [][\A h \in Handlers :
       /\ durableDown
       /\ hpc[h] = "create" /\ call[HT(h)].step = "insert"
       /\ call'[HT(h)] # call[HT(h)]
       => \/ /\ hpc'[h] = "create"
             /\ hretry'[h] = hretry[h] + 1 /\ hretry'[h] < maxRetries
          \/ /\ hretry'[h] = maxRetries
             /\ resp'[h].code = 500 /\ ppc'[h] = "idle"]_vars

ModelFailures == {"not_ok", "abort", "transport"}

\* C13: a background run calls the model at most once; when the call ends
\* with a non-success response, the abort or a transport error, the job is
\* written failed with a non-empty error and no second call is made.
C13_ModelCalledOnce ==
  \A h \in Handlers :
    /\ fetchCalls[h] <= 1
    /\ ppc[h] = "fetch" =>
         \A o \in ModelFailures :
           \E S \in {Apply(Drain, AfterFetch(Cur, h, o))} :
             /\ S.ppc[h] \in {"final", "done"}
             /\ S.fetches[h] = 1
             /\ S.lw[hjob[h]].status = "failed"
             /\ Present(S.lw[hjob[h]].error) /\ S.lw[hjob[h]].error # ""

C13_Witness ==
  \E h \in Handlers :
    /\ fetchCalls[h] = 1 /\ ppc[h] = "done"
    /\ lastWritten[hjob[h]].status = "failed"
    /\ lastWritten[hjob[h]].error = OutcomeWrite("abort").error

\* the number of calendar days from startDate to endDate, both included
InclusiveDays == surveyData.endDate - surveyData.startDate + 1

\* the positions <<day, activity>> of the activities of an itinerary
Positions(it) ==
  {<<i, j>> : i \in 1..Len(it.days), j \in 1..(MaxDay + 2)} \cap
  UNION {{<<i, j>> : j \in 1..Len(it.days[i].activities)} : i \in 1..Len(it.days)}

ActivityAt(it, q) == it.days[q[1]].activities[q[2]]

HasNumericCoordinates(a) ==
  /\ a.type = "object" /\ a.coordinates.type = "object"
  /\ IsNumber(a.coordinates.lat) /\ a.coordinates.lat # NaN
  /\ IsNumber(a.coordinates.lng) /\ a.coordinates.lng # NaN

LacksCoordinates(a) == a.type = "object" /\ a.coordinates.type = "undefined"

\* C14: when the model's JSON has fewer day entries than the request has
\* days and an activity without coordinates, the completed job holds an
\* itinerary with exactly that many days, every activity with numeric
\* coordinates.
C14_EndToEndRepaired ==
  /\ path = "job" /\ rpc = "done"
  /\ Len(candidate.days) < InclusiveDays
  /\ \E q \in Positions(candidate) : LacksCoordinates(ActivityAt(candidate, q))
  => /\ Len(itinerary.days) = InclusiveDays
     /\ \A q \in Positions(itinerary) :
          HasNumericCoordinates(ActivityAt(itinerary, q))

\* C15: every activity of an itinerary stored in a completed job has numeric
\* coordinates.lat, coordinates.lng and cost.
C15_StoredActivitiesNumeric ==
  path = "job" /\ rpc = "done" =>
    \A q \in Positions(itinerary) :
      /\ HasNumericCoordinates(ActivityAt(itinerary, q))
      /\ IsNumber(ActivityAt(itinerary, q).cost)
      /\ ActivityAt(itinerary, q).cost # NaN

\* C16: when the number of days of the output differs from the number of
\* days of the request, the response has exactly that many days: at each
\* date of the range the output's day of that date, as normalized, if there
\* is one, and a placeholder day otherwise.
C16_DaysReconciled ==
  path = "direct" /\ rpc = "done" /\ Len(candidate.days) # InclusiveDays =>
    /\ itinerary.ok
    /\ Len(itinerary.days) = InclusiveDays
    /\ \A i \in 1..Len(itinerary.days) :
         LET d == surveyData.startDate + i - 1
             original == {k \in 1..Len(candidate.days) : candidate.days[k].date = d}
         IN  IF original = {}
             THEN itinerary.days[i] = PlaceholderDay(d)
             ELSE \E k \in original :
                    itinerary.days[i] = NormalizeActivities(candidate).days[k]

\* C17: in every accepted itinerary the i-th day is dated startDate + i.
C17_DatesInOrderFromStart ==
  rpc = "done" /\ itinerary.ok =>
    \A i \in 1..Len(itinerary.days) :
      itinerary.days[i].date = surveyData.startDate + i - 1

\* the output is valid but for one activity that has no coordinates field
OneActivityLacksCoordinates ==
  /\ \A q \in Positions(candidate) :
       /\ ActivityAt(candidate, q).type = "object"
       /\ IsNumber(ActivityAt(candidate, q).cost)
       /\ \/ LacksCoordinates(ActivityAt(candidate, q))
          \/ HasNumericCoordinates(ActivityAt(candidate, q))
  /\ Cardinality({q \in Positions(candidate) :
                    LacksCoordinates(ActivityAt(candidate, q))}) = 1

\* the coordinates of the activities have been repaired
CoordinatesRepaired ==
  \/ path = "job" /\ rpc = "done"
  \/ path = "direct" /\ rpc = "normalized"

C19_DayCountInclusive ==
  rpc \in {"prompted", "normalized", "done"} => durationDays = InclusiveDays

\* C20: the created_at of a job record in the primary tier never changes
\* once the record exists, whatever createJob, updateJobStatus and
\* getJobStatus (with its promotion of the durable row) do.
C20_CreatedAtImmutable ==
  [][\A id \in JobIds :
       inMemoryJobs[id].status # "absent" /\ inMemoryJobs'[id].status # "absent"
         => inMemoryJobs'[id].created_at = inMemoryJobs[id].created_at]_vars

\* the transitions of the job lifecycle
Lifecycle ==
  {<<"queued", "processing">>, <<"processing", "processing">>,
   <<"processing", "completed">>, <<"processing", "failed">>,
   <<"queued", "failed">>}

\* the statuses request h has written for its job, in the order of the writes
StatusesWritten(h) == hwrote[h] \o pwrote[h]

\* C21: the statuses written for the job of a create request start with
\* queued and each next one follows the one before along a lifecycle
\* transition, on every path of the create handler.
C21_LifecycleFollowed ==
  \A h \in Handlers :
    LET w == StatusesWritten(h)
    IN  Len(w) > 0 =>
          /\ w[1] = "queued"
          /\ \A i \in 1..(Len(w) - 1) : <<w[i], w[i + 1]>> \in Lifecycle

\* updateJobStatus(jobId, status, data) from the call to its return, the
\* durable tier answering the select with oS and the upsert with oU
updateJobStatus(S, t, jobId, status, result, error, oS, oU) ==
  LET S1 == updateJobStatusBegin([S EXCEPT !.call[t] = NoCall], t, jobId,
                                 status, result, error)
  IN  IF Returned(S1.call[t]) THEN S1
      ELSE updateJobStatusUpsert(updateJobStatusSelect(S1, t, oS), t, oU)

\* the fields of a record that make it logically the same record
Logical(j) == [status |-> j.status, result |-> j.result, error |-> j.error,
               created_at |-> j.created_at]

\* the same call made again, at `later`, after the state A the first left
CalledAgain(A, t, jobId, w, oS, oU, later) ==
  updateJobStatus([A EXCEPT !.now = later], t, jobId, w.status, w.result,
                  w.error, oS, oU)

SameRecords(A, B, jobId) ==
  /\ Logical(B.mem[jobId]) = Logical(A.mem[jobId])
  /\ \A k \in DbKeys : Logical(B.db[k]) = Logical(A.db[k])

MarksProcessing(h) == pwrote'[h] = Append(pwrote[h], "processing")

\* the upsert of a 'processing' write of the background run is answered
ProcessingUpserted(h) ==
  /\ call[PT(h)].step = "upsert" /\ call[PT(h)].status = "processing"
  /\ call'[PT(h)] # call[PT(h)]

\* the same record: status, result, error (absent is absent) and both
\* timestamps
Unchanged(a, b) ==
  SameJob(a, b) /\ a.created_at = b.created_at /\ a.updated_at = b.updated_at

\* C23: when the background run marks processing a job whose record is
\* already processing, the record stays as it is, in the primary tier and
\* in the durable tier.
C23_ReenteringProcessingIsNoOp ==
  [][\A h \in Handlers, id \in JobIds :
       /\ hjob'[h] = id /\ MarksProcessing(h)
          /\ inMemoryJobs[id].status = "processing"
            => Unchanged(inMemoryJobs'[id], inMemoryJobs[id])
       /\ hjob'[h] = id /\ ProcessingUpserted(h)
          /\ db[DbKey(id)].status = "processing"
            => Unchanged(db'[DbKey(id)], db[DbKey(id)])]_vars

\* C24: the GET handler answers 400 exactly when the request has no jobId,
\* 404 exactly when getJobStatus returned 'not_found', and otherwise 200 with
\* the status, result and error getJobStatus returned; getJobStatus does not
\* throw, for an unknown id or any other.
C24_PollResponse ==
  /\ \A p \in Pollers :
       LET g == gresp[p]
       IN  g.code # 0 =>
             /\ g.code = 400 <=> g.jobId = 0
             /\ g.code = 404 <=> (g.jobId # 0 /\ g.jobStatus.status = "not_found")
             /\ g.code \notin {400, 404} => g.code = 200 /\ g.body = g.jobStatus
  /\ \A e \in opLog : e.op = "get" => ~e.threw

\* a poll for an id no job has was answered 404 while another job exists
C24_Witness ==
  \E p \in Pollers, h \in Handlers :
    /\ gresp[p].code = 404 /\ gresp[p].jobId # 0
    /\ inMemoryJobs[gresp[p].jobId].status = "absent"
    /\ hjob[h] # 0 /\ inMemoryJobs[hjob[h]].status # "absent"

C26_KeyTranslation ==
  \A t \in Threads :
    InFlight(call[t]) =>
      LET s == JobIdString(call[t].id)
      IN  /\ TimestampMatch(s) # <<>> => call[t].key = NumberOf(TimestampMatch(s))
          /\ call[t].key = debugGetDbCompatibleId(s)

\* C27: once supabaseDisabled is true it stays true, and no createJob,
\* updateJobStatus or getJobStatus call sends a durable-tier request: the
\* requests in flight after a step are those that were in flight before it.
C27_DisabledIsLatched ==
  [][supabaseDisabled =>
       /\ supabaseDisabled'
       /\ \A t \in Threads : InFlight(call'[t]) => call'[t] = call[t]]_vars

\* the states in which the call thread t is inside of in S has returned,
\* over everything the durable tier may answer to its remaining requests
RECURSIVE CallEnds(_, _)
CallEnds(S, t) ==
  IF Returned(S.call[t]) THEN {S}
  ELSE UNION {CallEnds(DurableAnswer(S, t, o), t) : o \in AllOutcomes}

\* C28: when a durable-tier request of a createJob, updateJobStatus or
\* getJobStatus call fails with a fetch failure, the tier is disabled when
\* the call returns; an answer that is an error value leaves the flag as it
\* is.
C28_ConnectivityErrorDisables ==
  \A t \in Threads :
    InFlight(call[t]) =>
      /\ \A S \in CallEnds(DurableAnswer(Cur, t, "throw_fetch"), t) : S.dis
      /\ DurableAnswer(Cur, t, "error").dis = supabaseDisabled

Reading(t) == call[t].op = "get" /\ InFlight(call[t])

\* what the attempt under way gives when it is answered with o
ReadGives(t, o) == DurableAnswer(Cur, t, o).call[t]

Rung(attempt) ==
  CASE attempt.strategy = "direct" -> 1
    [] attempt.strategy = "extraction" -> 2
    [] attempt.strategy \in {"sanitize", "repair"} -> 3
    [] attempt.strategy = "lastResort" -> 4
    [] attempt.strategy \in {"substring", "chunks"} -> 5

\* the parse of the model's text has ended
ParseEnded == rpc \in {"parsed", "failed"}

Failed(strategy) ==
  \E i \in 1..Len(ladder) :
    ladder[i].strategy = strategy /\ ladder[i].produced.threw

\* the parse of the given strategy was attempted
Attempted(strategy) ==
  \E i \in 1..Len(ladder) : ladder[i].strategy = strategy

\* C31: in the background run, when the direct parse, the brace extraction
\* and the syntactic repairs have all failed, the scan over successive start
\* positions of the text is attempted.
C31_WindowedRescanAttempted ==
  /\ ParseEnded /\ path = "job"
  /\ Failed("direct") /\ Failed("extraction")
  /\ Failed("sanitize") /\ Failed("lastResort")
  => Attempted("chunks")

\* C32: when no parse of the ladder gives an object, the background run
\* writes failed, not completed, with an error, with the message of the parse
\* error and with a sample of the model's text of at most 500 characters,
\* and with no itinerary.
C32_ParseFailureIsRecorded ==
  /\ ParseEnded /\ path = "job"
  /\ \A i \in 1..Len(ladder) : ~IsObject(ladder[i].produced.value)
  => /\ written.status = "failed"
     /\ Present(written.error)
     /\ DOMAIN written.result = {"rawContent", "errorMessage"}
     /\ written.result.rawContent.of = itineraryContent
     /\ written.result.rawContent.start = 0
     /\ written.result.rawContent.length <= 500
     /\ written.result.rawContent.length =
          IF Length(itineraryContent) <= 500
          THEN Length(itineraryContent) ELSE 500
     /\ written.result.errorMessage \in
          {"SyntaxError", "Parsed result is not a valid object"}

\* a text of more than 500 characters that no parse of the ladder repairs
C32_Witness ==
  /\ rpc = "failed" /\ path = "job"
  /\ Length(itineraryContent) > 500
  /\ \A i \in 1..Len(ladder) : ladder[i].produced.threw
  /\ written.status = "failed"
  /\ written.result.rawContent.length = 500

\* the background run of h goes past its key check in this step
KeyChecked(h) == ppc[h] = "processing" /\ ppc'[h] # "processing"

\* C33: with an API key that is empty or does not start with 'sk-', a
\* background run never calls the model, and after it has marked the job
\* processing its next and last write is failed with an error message.
C33_InvalidKeyFailsJob ==
  /\ [](~keyValid =>
          \A h \in Handlers :
            /\ fetchCalls[h] = 0 /\ ppc[h] # "fetch"
            /\ ppc[h] \in {"final", "done"} =>
                 pwrote[h] = <<"processing", "failed">>)
  /\ [][~keyValid =>
          \A h \in Handlers :
            KeyChecked(h) =>
              /\ ppc'[h] \in {"final", "done"}
              /\ lastWritten'[hjob[h]].status = "failed"
              /\ Present(lastWritten'[hjob[h]].error)
              /\ lastWritten'[hjob[h]].error # ""
              /\ inMemoryJobs'[hjob[h]].status = "failed"
              /\ inMemoryJobs'[hjob[h]].error = lastWritten'[hjob[h]].error]_vars

\* a background run that found the key invalid has ended
C33_Witness ==
  \E h \in Handlers :
    /\ ~keyValid /\ ppc[h] = "done"
    /\ pwrote[h] = <<"processing", "failed">>
    /\ inMemoryJobs[hjob[h]].status = "failed"
    /\ inMemoryJobs[hjob[h]].error = InvalidKeyWrite.error

\* C34: a background run that has entered processItineraryJob goes on to
\* the write of its outcome, also when requests of its updateJobStatus calls
\* to the durable tier fail or stay unanswered.
C34_StatusWritesDoNotBlock ==
  \A h \in Handlers : (ppc[h] = "processing") ~> WroteTerminal(h)

\* the places of the terminal statuses among the writes of the run of h
TerminalWrites(h) ==
  {i \in 1..Len(pwrote[h]) : pwrote[h][i] \in Terminal}

\* C35: a background run writes at most one terminal status, which is its
\* last write, and has written exactly one when it has ended; the create
\* handler never writes failed for the job.
C35_OneTerminalWrite ==
  \A h \in Handlers :
    /\ Cardinality(TerminalWrites(h)) <= 1
    /\ TerminalWrites(h) \subseteq {Len(pwrote[h])}
    /\ ppc[h] = "done" => Cardinality(TerminalWrites(h)) = 1
    /\ \A i \in 1..Len(hwrote[h]) : hwrote[h][i] # "failed"

\* a background run that wrote completed has ended
C35_Witness ==
  \E h \in Handlers :
    /\ ppc[h] = "done" /\ fetchCalls[h] = 1
    /\ pwrote[h][Len(pwrote[h])] = "completed"
    /\ inMemoryJobs[hjob[h]].status = "completed"

\* the getJobStatus calls of a further poll by p for the job it has polled,
\* over everything the durable tier may answer
NextPoll(p) ==
  CallEnds(getJobStatusBegin(Cur, GT(p), gresp[p].jobId), GT(p))

\* C36: once a poll for a job has returned completed or failed, a later poll
\* for that job does not return queued or processing.
C36_PolledStatusNeverRegresses ==
  \A p \in Pollers :
    /\ call[GT(p)].op = "none" /\ gresp[p].jobId \in JobIds
    /\ gresp[p].jobStatus.status \in Terminal
    => \A S \in NextPoll(p) :
         S.call[GT(p)].retJob.status \notin {"queued", "processing"}

\* C37: the job ids of two create requests made at different milliseconds
\* have different keys in the durable tier.
C37_DistinctIdsDistinctKeys ==
  dbIds # <<>> /\ timestamps[1] # timestamps[2] => dbIds[1] # dbIds[2]

\* C38: once a poll has returned completed or failed, JobStatusPoller makes
\* no further status request for the job, it has called onComplete at most
\* once, and the poll that returned failed has called onError exactly once
C38_PollerStopsWhenTerminal ==
  /\ [](onCompleteCalls <= 1)
  /\ [](polledStatus \in Terminal => ~timer.set)
  /\ [][(polledStatus \in Terminal) =>
             <<onCompleteCalls, onErrorCalls>>'
               = <<onCompleteCalls, onErrorCalls>>]_vars
  /\ [][(polledStatus \notin Terminal) /\ polledStatus' = "failed" =>
             onErrorCalls' = onErrorCalls + 1]_vars

\* a 404 response is received in this step
Received404 == notFoundRun' = notFoundRun + 1

\* an ok response is received in this step
ReceivedOk == \E p \in polls' : p.at = "json" /\ p \notin polls

\* C39: a 404 that is not the 5th in a row leaves onError uncalled and the
\* component polling, the 5th 404 in a row calls onError, and an ok response
\* to the only outstanding request sets notFoundCount back to 0
C39_NotFoundTolerance ==
  /\ [][Received404 /\ notFoundRun' < MAX_NOT_FOUND_RETRIES =>
             onErrorCalls' = onErrorCalls]_vars
  /\ [][Received404 /\ notFoundRun' < MAX_NOT_FOUND_RETRIES
        /\ polledStatus \notin Terminal /\ pollCount' < maxPolls =>
             timer'.set]_vars
  /\ [][Received404 /\ notFoundRun' = MAX_NOT_FOUND_RETRIES =>
             onErrorCalls' = onErrorCalls + 1]_vars
  /\ [][ReceivedOk /\ ~timer.set /\ Cardinality(polls) = 1 =>
             notFoundCount' = 0]_vars

====
